---------------------------- MODULE Spec2Model ----------------------------
(***************************************************************************)
(* Temporal Event Model (reference/python/temporal.py).                    *)
(*                                                                         *)
(* The reducer apply_event, the timeline builder build_timeline, the       *)
(* deriver derive_snapshot, the diff engine compute_diff and the           *)
(* validators validate_event / validate_timeline, as operators computed    *)
(* the way the Python computes them, and the callers that drive them as    *)
(* state machines.                                                         *)
(*                                                                         *)
(* Python values.  A JSON value is a tagged record, so that values of      *)
(* different Python types are unequal instead of incomparable:             *)
(*   None, Str(s), Num(n), List(<<...>>), Dict(f).                         *)
(* A Python dict used as an object (an event, a payload, a state, a        *)
(* relationship record) is a function from its keys to its values; the     *)
(* empty dict is <<>>.  A snapshot is None or a record of the five keys    *)
(* apply_event writes.                                                     *)
(*                                                                         *)
(* Object identity matters to one property only, that apply_event leaves   *)
(* its input alone; for it the reducer is given a second time, on          *)
(* references into a heap of dicts and lists (apply_event_at).             *)
(***************************************************************************)
EXTENDS Integers, Sequences, FiniteSets, TLC

VARIABLES
    snapshot,   \* reducer caller: the snapshot it holds (None or a snapshot)
    last,       \* reducer caller: its last call of the core and what came back
    kept,       \* reducer caller: an earlier snapshot it kept, to diff against
    events,     \* log driver: the event list handed to the core
    out,        \* log driver: the last core call and what came back
    heap        \* the objects of the interpreter: heap[a] is the dict or list at a

vars == <<snapshot, last, kept, events, out, heap>>

-----------------------------------------------------------------------------
(* Python values *)

None == [kind |-> "None"]
Str(s) == [kind |-> "str", s |-> s]
Num(n) == [kind |-> "int", n |-> n]
List(items) == [kind |-> "list", items |-> items]
Dict(entries) == [kind |-> "dict", entries |-> entries]

EmptyDict == <<>>

\* d.get(k, default)
Get(d, k, default) == IF k \in DOMAIN d THEN d[k] ELSE default

\* for key, value in src.items(): dst[key] = value
Merge(dst, src) ==
    [k \in (DOMAIN dst) \cup (DOMAIN src) |->
        IF k \in DOMAIN src THEN src[k] ELSE dst[k]]

\* str(v) inside an f-string, for the values the messages interpolate
Format(v) ==
    CASE v.kind = "None" -> "None"
      [] v.kind = "str" -> v.s
      [] OTHER -> "?"

\* How a call ends: it returns a value or raises an exception.
Return(value) == [kind |-> "return", value |-> value]
Raise(exc, msg) == [kind |-> "raise", exc |-> exc, msg |-> msg]

Returned(r) == r.kind = "return"
Raised(r) == r.kind = "raise"

-----------------------------------------------------------------------------
(* Event Application: apply_event *)

\* truthiness of "snapshot is not None"
IsNone(s) == s = None

\* snapshot.get("deleted", False)
IsDeleted(s) == Get(s, "deleted", FALSE)

\* The dict every successful branch returns.  Python evaluates the items of
\* the literal in order: event["timestamp"] before event["id"], each a
\* KeyError when the key is missing.
NewSnapshot(entity_id, event, state, deleted) ==
    IF "timestamp" \notin DOMAIN event THEN Raise("KeyError", <<"timestamp">>)
    ELSE IF "id" \notin DOMAIN event THEN Raise("KeyError", <<"id">>)
    ELSE Return([entity_id |-> entity_id,
                 as_of |-> event["timestamp"],
                 state |-> state,
                 last_event_id |-> event["id"],
                 deleted |-> deleted])

\* faulty variant: a created event on a tombstone merges its payload into the
\* state it finds instead of starting from the payload alone
apply_created_carrying(s, entity_id, event, payload) ==
    IF ~IsNone(s) /\ ~IsDeleted(s)
    THEN Raise("ValueError", <<"Cannot create ", entity_id, ": already exists">>)
    ELSE NewSnapshot(entity_id, event,
                     IF IsNone(s) THEN payload ELSE Merge(s.state, payload),
                     FALSE)

apply_created(s, entity_id, event, payload) ==
    IF ~IsNone(s) /\ ~IsDeleted(s)
    THEN Raise("ValueError", <<"Cannot create ", entity_id, ": already exists">>)
    ELSE NewSnapshot(entity_id, event, payload, FALSE)

\* faulty variant: the payload replaces the state instead of being merged in
apply_updated_replacing(s, entity_id, event, payload) ==
    IF IsNone(s)
    THEN Raise("ValueError", <<"Cannot update ", entity_id, ": does not exist">>)
    ELSE IF IsDeleted(s)
    THEN Raise("ValueError", <<"Cannot update ", entity_id, ": has been deleted">>)
    ELSE NewSnapshot(entity_id, event, payload, FALSE)

\* faulty variant: an update of an absent entity creates it
apply_updated_upserting(s, entity_id, event, payload) ==
    IF IsNone(s)
    THEN NewSnapshot(entity_id, event, payload, FALSE)
    ELSE IF IsDeleted(s)
    THEN Raise("ValueError", <<"Cannot update ", entity_id, ": has been deleted">>)
    ELSE NewSnapshot(entity_id, event, Merge(s.state, payload), FALSE)

apply_updated(s, entity_id, event, payload) ==
    IF IsNone(s)
    THEN Raise("ValueError", <<"Cannot update ", entity_id, ": does not exist">>)
    ELSE IF IsDeleted(s)
    THEN Raise("ValueError", <<"Cannot update ", entity_id, ": has been deleted">>)
    ELSE NewSnapshot(entity_id, event, Merge(s.state, payload), FALSE)

\* faulty variant: the deleted branch without its check of the deleted flag
apply_deleted_unchecked(s, entity_id, event, payload) ==
    IF IsNone(s)
    THEN Raise("ValueError", <<"Cannot delete ", entity_id, ": does not exist">>)
    ELSE NewSnapshot(entity_id, event,
                     [_deleted_state |-> Dict(s.state)], TRUE)

apply_deleted(s, entity_id, event, payload) ==
    IF IsNone(s)
    THEN Raise("ValueError", <<"Cannot delete ", entity_id, ": does not exist">>)
    ELSE IF IsDeleted(s)
    THEN Raise("ValueError", <<"Cannot delete ", entity_id, ": already deleted">>)
    ELSE NewSnapshot(entity_id, event,
                     [_deleted_state |-> Dict(s.state)], TRUE)

\* {"type": ..., "target": ..., **payload.get("properties", {})}
RelationshipRecord(payload) ==
    Merge([type |-> Get(payload, "relationship_type", None),
           target |-> Get(payload, "target_entity", None)],
          Get(payload, "properties", Dict(EmptyDict)).entries)

apply_relationship_added(s, entity_id, event, payload) ==
    IF IsNone(s)
    THEN Raise("ValueError",
               <<"Cannot add relationship to ", entity_id, ": does not exist">>)
    ELSE IF IsDeleted(s)
    THEN Raise("ValueError",
               <<"Cannot add relationship to ", entity_id, ": has been deleted">>)
    ELSE LET copied == s.state
             new_state == IF "relationships" \notin DOMAIN copied
                          THEN Merge(copied, [relationships |-> List(<<>>)])
                          ELSE copied
             appended == Append(new_state["relationships"].items,
                                RelationshipRecord(payload))
         IN NewSnapshot(entity_id, event,
                        Merge(new_state, [relationships |-> List(appended)]),
                        FALSE)

\* faulty variant: only the first matching record is removed
apply_relationship_removed_first(s, entity_id, event, payload) ==
    IF IsNone(s)
    THEN Raise("ValueError",
               <<"Cannot remove relationship from ", entity_id, ": does not exist">>)
    ELSE IF IsDeleted(s)
    THEN Raise("ValueError",
               <<"Cannot remove relationship from ", entity_id, ": has been deleted">>)
    ELSE LET new_state == s.state
             relationships == Get(new_state, "relationships", List(<<>>)).items
             target == Get(payload, "target_entity", None)
             rel_type == Get(payload, "relationship_type", None)
             Hit(i) == Get(relationships[i], "target", None) = target
                       /\ Get(relationships[i], "type", None) = rel_type
             hits == {i \in 1..Len(relationships) : Hit(i)}
         IN IF hits = {}
            THEN Raise("ValueError",
                       <<"Relationship not found: ", Format(rel_type),
                         " -> ", Format(target)>>)
            ELSE LET first == CHOOSE i \in hits : \A j \in hits : i <= j
                 IN NewSnapshot(entity_id, event,
                                Merge(new_state,
                                      [relationships |->
                                          List(SubSeq(relationships, 1, first - 1)
                                               \o SubSeq(relationships, first + 1,
                                                         Len(relationships)))]),
                                FALSE)

apply_relationship_removed(s, entity_id, event, payload) ==
    IF IsNone(s)
    THEN Raise("ValueError",
               <<"Cannot remove relationship from ", entity_id, ": does not exist">>)
    ELSE IF IsDeleted(s)
    THEN Raise("ValueError",
               <<"Cannot remove relationship from ", entity_id, ": has been deleted">>)
    ELSE LET new_state == s.state
             relationships == Get(new_state, "relationships", List(<<>>)).items
             target == Get(payload, "target_entity", None)
             rel_type == Get(payload, "relationship_type", None)
             Keep(r) == ~(Get(r, "target", None) = target
                          /\ Get(r, "type", None) = rel_type)
             new_relationships == SelectSeq(relationships, Keep)
         IN IF Len(new_relationships) = Len(relationships)
            THEN Raise("ValueError",
                       <<"Relationship not found: ", Format(rel_type),
                         " -> ", Format(target)>>)
            ELSE NewSnapshot(entity_id, event,
                             Merge(new_state,
                                   [relationships |-> List(new_relationships)]),
                             FALSE)

apply_event(s, event) ==
    IF "event_type" \notin DOMAIN event THEN Raise("KeyError", <<"event_type">>)
    ELSE IF "entity_id" \notin DOMAIN event THEN Raise("KeyError", <<"entity_id">>)
    ELSE LET event_type == event["event_type"]
             entity_id == event["entity_id"]
             payload == Get(event, "payload", EmptyDict)
         IN CASE event_type = "created" ->
                     apply_created(s, entity_id, event, payload)
              [] event_type = "updated" ->
                     apply_updated(s, entity_id, event, payload)
              [] event_type = "deleted" ->
                     apply_deleted(s, entity_id, event, payload)
              [] event_type = "relationship_added" ->
                     apply_relationship_added(s, entity_id, event, payload)
              [] event_type = "relationship_removed" ->
                     apply_relationship_removed(s, entity_id, event, payload)
              [] OTHER ->
                     Raise("ValueError", <<"Unknown event type: ", event_type>>)

-----------------------------------------------------------------------------
(* Python str ordering: by code point, position by position; a proper      *)
(* prefix sorts first.  Timestamps, ids and field names are compared so.   *)

\* ord(c) of the characters the model's strings are written in
Ord ==
    ("-" :> 45) @@ ("0" :> 48) @@ ("1" :> 49) @@ ("2" :> 50) @@
    ("3" :> 51) @@ ("4" :> 52) @@ ("5" :> 53) @@ ("6" :> 54) @@
    ("7" :> 55) @@ ("8" :> 56) @@ ("9" :> 57) @@ (":" :> 58) @@
    ("T" :> 84) @@ ("Z" :> 90) @@ ("_" :> 95) @@ ("a" :> 97) @@
    ("b" :> 98) @@ ("c" :> 99) @@ ("d" :> 100) @@ ("e" :> 101) @@
    ("f" :> 102) @@ ("g" :> 103) @@ ("h" :> 104) @@ ("i" :> 105) @@
    ("j" :> 106) @@ ("k" :> 107) @@ ("l" :> 108) @@ ("m" :> 109) @@
    ("n" :> 110) @@ ("o" :> 111) @@ ("p" :> 112) @@ ("q" :> 113) @@
    ("r" :> 114) @@ ("s" :> 115) @@ ("t" :> 116) @@ ("u" :> 117) @@
    ("v" :> 118) @@ ("w" :> 119) @@ ("x" :> 120) @@ ("y" :> 121) @@
    ("z" :> 122)

CharAt(s, i) == SubSeq(s, i, i)

RECURSIVE StrLtFrom(_, _, _)
StrLtFrom(a, b, i) ==
    IF i > Len(b) THEN FALSE
    ELSE IF i > Len(a) THEN TRUE
    ELSE LET ca == Ord[CharAt(a, i)]
             cb == Ord[CharAt(b, i)]
         IN IF ca < cb THEN TRUE
            ELSE IF ca > cb THEN FALSE
            ELSE StrLtFrom(a, b, i + 1)

\* a < b on str
StrLt(a, b) == a # b /\ StrLtFrom(a, b, 1)

\* (a1, a2) < (b1, b2) on tuples of str: the first items that differ decide
TupleLt(k1, k2) ==
    IF k1[1] # k2[1] THEN StrLt(k1[1], k2[1]) ELSE StrLt(k1[2], k2[2])

-----------------------------------------------------------------------------
(* Diff Computation: compute_diff *)

Bool(b) == [kind |-> "bool", b |-> b]

\* sorted(keys) of a set of str
RECURSIVE SortedKeys(_)
SortedKeys(keys) ==
    IF keys = {} THEN <<>>
    ELSE LET least == CHOOSE k \in keys : \A j \in keys : j = k \/ StrLt(k, j)
         IN <<least>> \o SortedKeys(keys \ {least})

\* faulty variant: the loop appends a record for every field, equal or not
RECURSIVE diff_loop_every_field(_, _, _, _, _)
diff_loop_every_field(keys, i, before_state, after_state, changes) ==
    IF i > Len(keys) THEN changes
    ELSE diff_loop_every_field(keys, i + 1, before_state, after_state,
            Append(changes, [field |-> keys[i],
                             before |-> Get(before_state, keys[i], None),
                             after |-> Get(after_state, keys[i], None)]))

\* the for loop over sorted(all_keys), appending to changes
RECURSIVE diff_loop(_, _, _, _, _)
diff_loop(keys, i, before_state, after_state, changes) ==
    IF i > Len(keys) THEN changes
    ELSE LET key == keys[i]
             before_val == Get(before_state, key, None)
             after_val == Get(after_state, key, None)
         IN diff_loop(keys, i + 1, before_state, after_state,
                IF before_val # after_val
                THEN Append(changes, [field |-> key,
                                      before |-> before_val,
                                      after |-> after_val])
                ELSE changes)

\* faulty variant: the record of the deleted flag is appended after the
\* records of the fields
compute_diff_flag_last(before, after) ==
    LET before_state == IF ~IsNone(before) THEN before.state ELSE EmptyDict
        after_state == IF ~IsNone(after) THEN after.state ELSE EmptyDict
        before_deleted == IF ~IsNone(before) THEN IsDeleted(before) ELSE FALSE
        after_deleted == IF ~IsNone(after) THEN IsDeleted(after) ELSE FALSE
        flag == IF before_deleted # after_deleted
                THEN <<[field |-> "deleted",
                        before |-> Bool(before_deleted),
                        after |-> Bool(after_deleted)]>>
                ELSE <<>>
        all_keys == (DOMAIN before_state) \cup (DOMAIN after_state)
    IN [before |-> [as_of |-> IF ~IsNone(before) THEN Str(before.as_of) ELSE None],
        after |-> [as_of |-> IF ~IsNone(after) THEN Str(after.as_of) ELSE None],
        changes |-> diff_loop(SortedKeys(all_keys), 1,
                              before_state, after_state, <<>>) \o flag]

compute_diff(before, after) ==
    LET before_state == IF ~IsNone(before) THEN before.state ELSE EmptyDict
        after_state == IF ~IsNone(after) THEN after.state ELSE EmptyDict
        before_deleted == IF ~IsNone(before) THEN IsDeleted(before) ELSE FALSE
        after_deleted == IF ~IsNone(after) THEN IsDeleted(after) ELSE FALSE
        flag == IF before_deleted # after_deleted
                THEN <<[field |-> "deleted",
                        before |-> Bool(before_deleted),
                        after |-> Bool(after_deleted)]>>
                ELSE <<>>
        all_keys == (DOMAIN before_state) \cup (DOMAIN after_state)
    IN [before |-> [as_of |-> IF ~IsNone(before) THEN Str(before.as_of) ELSE None],
        after |-> [as_of |-> IF ~IsNone(after) THEN Str(after.as_of) ELSE None],
        changes |-> diff_loop(SortedKeys(all_keys), 1,
                              before_state, after_state, flag)]

-----------------------------------------------------------------------------
(* Timeline Operations: build_timeline, derive_snapshot *)

\* faulty variant: the sort key is the timestamp alone
sort_key_timestamp(event) ==
    IF "timestamp" \notin DOMAIN event THEN Raise("KeyError", <<"timestamp">>)
    ELSE IF "id" \notin DOMAIN event THEN Raise("KeyError", <<"id">>)
    ELSE Return(<<event["timestamp"], "">>)

\* (event["timestamp"], event["id"]): a KeyError when either is missing
sort_key(event) ==
    IF "timestamp" \notin DOMAIN event THEN Raise("KeyError", <<"timestamp">>)
    ELSE IF "id" \notin DOMAIN event THEN Raise("KeyError", <<"id">>)
    ELSE Return(<<event["timestamp"], event["id"]>>)

\* sorted() is stable: an element goes after every element whose key is
\* not greater than its own.
RECURSIVE InsertSorted(_, _, _)
InsertSorted(sorted, event, i) ==
    IF i > Len(sorted) THEN Append(sorted, event)
    ELSE IF TupleLt(sort_key(event).value, sort_key(sorted[i]).value)
    THEN SubSeq(sorted, 1, i - 1) \o <<event>> \o SubSeq(sorted, i, Len(sorted))
    ELSE InsertSorted(sorted, event, i + 1)

RECURSIVE SortedFrom(_, _, _)
SortedFrom(evs, i, sorted) ==
    IF i > Len(evs) THEN sorted
    ELSE SortedFrom(evs, i + 1, InsertSorted(sorted, evs[i], 1))

\* faulty variant: the events are taken in the order they were given in
build_timeline_as_given(evs) == Return(evs)

build_timeline(evs) ==
    LET bad == {i \in 1..Len(evs) : Raised(sort_key(evs[i]))}
    IN IF bad # {}
       THEN sort_key(evs[CHOOSE i \in bad : \A j \in bad : i <= j])
       ELSE Return(SortedFrom(evs, 1, <<>>))

\* faulty variant: the loop skips an event that fails instead of failing with it
RECURSIVE derive_loop_skipping(_, _, _, _)
derive_loop_skipping(timeline, i, s, as_of) ==
    IF i > Len(timeline) THEN Return(s)
    ELSE IF StrLt(as_of, timeline[i]["timestamp"]) THEN Return(s)
    ELSE LET r == apply_event(s, timeline[i])
         IN IF Raised(r) THEN derive_loop_skipping(timeline, i + 1, s, as_of)
            ELSE derive_loop_skipping(timeline, i + 1, r.value, as_of)

\* faulty variant: the loop stops at an event of timestamp as_of already
RECURSIVE derive_loop_exclusive(_, _, _, _)
derive_loop_exclusive(timeline, i, s, as_of) ==
    IF i > Len(timeline) THEN Return(s)
    ELSE IF ~StrLt(timeline[i]["timestamp"], as_of) THEN Return(s)
    ELSE LET r == apply_event(s, timeline[i])
         IN IF Raised(r) THEN r
            ELSE derive_loop_exclusive(timeline, i + 1, r.value, as_of)

\* the for loop of derive_snapshot: break at the first event after as_of,
\* an exception of apply_event leaves the function
RECURSIVE derive_loop(_, _, _, _)
derive_loop(timeline, i, s, as_of) ==
    IF i > Len(timeline) THEN Return(s)
    ELSE IF StrLt(as_of, timeline[i]["timestamp"]) THEN Return(s)
    ELSE LET r == apply_event(s, timeline[i])
         IN IF Raised(r) THEN r
            ELSE derive_loop(timeline, i + 1, r.value, as_of)

\* faulty variant: the snapshot keeps the as_of of its last event
derive_snapshot_last_as_of(evs, as_of) ==
    LET timeline == build_timeline(evs)
    IN IF Raised(timeline) THEN timeline
       ELSE derive_loop(timeline.value, 1, None, as_of)

derive_snapshot(evs, as_of) ==
    LET timeline == build_timeline(evs)
    IN IF Raised(timeline) THEN timeline
       ELSE LET r == derive_loop(timeline.value, 1, None, as_of)
            IN IF Raised(r) THEN r
               ELSE IF ~IsNone(r.value)
               THEN Return([r.value EXCEPT !.as_of = as_of])
               ELSE r

-----------------------------------------------------------------------------
(* Validation: validate_event, validate_timeline *)

required == <<"id", "entity_id", "event_type", "timestamp", "payload">>

valid_types ==
    {"created", "updated", "deleted", "relationship_added", "relationship_removed"}

\* The strings of the model that datetime.fromisoformat accepts once a
\* trailing Z is replaced by +00:00.
IsoTimestamps ==
    {"2023-06-30T00:00:00Z", "2024-01-01T00:00:00Z", "2024-02-01T00:00:00Z",
     "2024-03-15T10:30:00Z", "2024-03-20T14:00:00Z", "2024-04-01T00:00:00Z",
     "2024-06-01T09:00:00Z", "2024-07-01T00:00:00Z", "2024-12-31T23:59:59Z",
     "2025-01-01T00:00:00Z"}

validate_event(event) ==
    LET missing == SelectSeq(required, LAMBDA f : f \notin DOMAIN event)
        type_errors ==
            IF "event_type" \notin DOMAIN event
            THEN <<<<"Invalid event_type: ", "None">>>>
            ELSE IF event["event_type"] \notin valid_types
            THEN <<<<"Invalid event_type: ", event["event_type"]>>>>
            ELSE <<>>
        ts == Get(event, "timestamp", "")
        ts_errors == IF ts \notin IsoTimestamps
                     THEN <<<<"Invalid timestamp format: ", ts>>>>
                     ELSE <<>>
    IN [i \in 1..Len(missing) |-> <<"Missing required field: ", missing[i]>>]
       \o type_errors \o ts_errors

\* faulty variant: after a failure the replay starts over from absent
RECURSIVE validate_loop_restarting(_, _, _, _)
validate_loop_restarting(timeline, i, s, errors) ==
    IF i > Len(timeline) THEN Return([snapshot |-> s, errors |-> errors])
    ELSE LET event == timeline[i]
             r == apply_event(s, event)
         IN IF Returned(r)
            THEN validate_loop_restarting(timeline, i + 1, r.value, errors)
            ELSE IF r.exc = "ValueError"
            THEN validate_loop_restarting(timeline, i + 1, None,
                    Append(errors, <<"Event ", event["id"], ": ">> \o r.msg))
            ELSE r

\* the for loop of validate_timeline, over its locals snapshot and errors:
\* a ValueError becomes an entry and leaves snapshot as it is, any other
\* exception leaves the function
RECURSIVE validate_loop(_, _, _, _)
validate_loop(timeline, i, s, errors) ==
    IF i > Len(timeline) THEN Return([snapshot |-> s, errors |-> errors])
    ELSE LET event == timeline[i]
             r == apply_event(s, event)
         IN IF Returned(r) THEN validate_loop(timeline, i + 1, r.value, errors)
            ELSE IF r.exc = "ValueError"
            THEN validate_loop(timeline, i + 1, s,
                    Append(errors, <<"Event ", event["id"], ": ">> \o r.msg))
            ELSE r

\* faulty variant: the replay takes the events in the order they were given in
validate_timeline_as_given(evs) ==
    LET r == validate_loop(evs, 1, None, <<>>)
    IN IF Raised(r) THEN r ELSE Return(r.value.errors)

validate_timeline(evs) ==
    LET timeline == build_timeline(evs)
    IN IF Raised(timeline) THEN timeline
       ELSE LET r == validate_loop(timeline.value, 1, None, <<>>)
            IN IF Raised(r) THEN r ELSE Return(r.value.errors)

-----------------------------------------------------------------------------
(* The events the callers hand to the core *)

MaxEvents == 3
MaxRelationships == 3

T0 == "2023-06-30T00:00:00Z"
T1 == "2024-01-01T00:00:00Z"
T1a == "2024-02-01T00:00:00Z"
T2 == "2024-03-15T10:30:00Z"

Event(id, event_type, timestamp, payload) ==
    [id |-> id, entity_id |-> "company-123", event_type |-> event_type,
     timestamp |-> timestamp, payload |-> payload]

\* a record that lacks one key
Without(event, field) == [k \in (DOMAIN event) \ {field} |-> event[k]]

Employs(target) ==
    [relationship_type |-> Str("employs"), target_entity |-> Str(target)]

EmploysAs(target, role) ==
    [relationship_type |-> Str("employs"), target_entity |-> Str(target),
     properties |-> Dict([role |-> Str(role)])]

\* Events of one entity, with all five fields and ids unique; "archived" is
\* an event_type outside the enumeration.  Two timestamps, so that several
\* events share one and the id decides; evt-10 sorts before evt-5 as str.
LogEvents ==
    {Event("evt-1", "created", T1, [status |-> Str("active")]),
     Event("evt-2", "updated", T1,
           [status |-> Str("expanding"), employee_count |-> Num(10)]),
     Event("evt-3", "relationship_added", T1, EmploysAs("person-456", "engineer")),
     Event("evt-9", "deleted", T1, EmptyDict),
     Event("evt-5", "created", T2, [founded |-> Str("2024")]),
     Event("evt-10", "relationship_removed", T2, Employs("person-456")),
     Event("evt-7", "deleted", T2, EmptyDict),
     Event("evt-4", "archived", T2, EmptyDict)}

AsOfs == {T0, T1, T1a, T2}

\* What a caller of apply_event may pass: events with payloads that set a
\* field to null, relationship events with and without properties, and
\* records that lack a field.
ReducerEvents ==
    {Event("evt-1", "created", T1, [status |-> Str("active")]),
     Event("evt-5", "created", T2, [status |-> Str("active"), note |-> None]),
     Without(Event("evt-1", "created", T1, EmptyDict), "payload"),
     Event("evt-2", "updated", T1, [status |-> Str("stable")]),
     Event("evt-6", "updated", T2, [note |-> None]),
     Event("evt-9", "deleted", T2, EmptyDict),
     Event("evt-3", "relationship_added", T1, EmploysAs("person-456", "engineer")),
     Event("evt-8", "relationship_added", T2, Employs("person-789")),
     Event("evt-10", "relationship_removed", T2, Employs("person-456")),
     Event("evt-11", "relationship_removed", T2, Employs("person-789")),
     Event("evt-4", "archived", T2, EmptyDict),
     Without(Event("evt-2", "updated", T1, [status |-> Str("stable")]), "entity_id"),
     Without(Event("evt-9", "deleted", T2, EmptyDict), "event_type"),
     Without(Event("evt-2", "updated", T1, [status |-> Str("stable")]), "id"),
     Without(Event("evt-2", "updated", T1, [status |-> Str("stable")]), "timestamp")}

\* an event as the data model defines it: all five fields present
WellFormed(event) == \A i \in 1..Len(required) : required[i] \in DOMAIN event

-----------------------------------------------------------------------------
(* The callers *)

Idle == [op |-> "idle"]

Init ==
    /\ snapshot = None
    /\ last = Idle
    /\ kept = None
    /\ events = <<>>
    /\ out = Idle
    /\ heap = <<>>

\* len(snapshot["state"]["relationships"]) of the snapshot the caller holds
RelationshipCount(s) ==
    IF IsNone(s) THEN 0
    ELSE Len(Get(s.state, "relationships", List(<<>>)).items)

\* A caller folds by hand: snapshot = apply_event(snapshot, event); when
\* the call raises, the assignment does not happen.
ApplyEvent(event) ==
    /\ Get(event, "event_type", "") = "relationship_added"
          => RelationshipCount(snapshot) < MaxRelationships
    /\ LET r == apply_event(snapshot, event)
       IN /\ last' = [op |-> "apply_event", snapshot |-> snapshot,
                      event |-> event, result |-> r]
          /\ snapshot' = IF Returned(r) THEN r.value ELSE snapshot
    /\ UNCHANGED <<kept, events, out, heap>>

NextReducer == \E event \in ReducerEvents : ApplyEvent(event)

SpecReducer == Init /\ [][NextReducer]_vars

\* The driver collects the log, one event at a time.
Submit(event) ==
    /\ Len(events) < MaxEvents
    /\ events' = Append(events, event)
    /\ out' = Idle
    /\ UNCHANGED <<snapshot, last, kept, heap>>

BuildTimeline ==
    /\ out = Idle
    /\ out' = [op |-> "build_timeline", result |-> build_timeline(events)]
    /\ UNCHANGED <<snapshot, last, kept, events, heap>>

DeriveSnapshot(as_of) ==
    /\ out = Idle
    /\ out' = [op |-> "derive_snapshot", as_of |-> as_of,
               result |-> derive_snapshot(events, as_of)]
    /\ UNCHANGED <<snapshot, last, kept, events, heap>>

ValidateTimeline ==
    /\ out = Idle
    /\ out' = [op |-> "validate_timeline", result |-> validate_timeline(events)]
    /\ UNCHANGED <<snapshot, last, kept, events, heap>>

Next ==
    \/ \E event \in LogEvents : Submit(event)
    \/ BuildTimeline
    \/ \E as_of \in AsOfs : DeriveSnapshot(as_of)
    \/ ValidateTimeline

Spec == Init /\ [][Next]_vars

\* The records a validator may be handed: events, one without payload, one
\* with a timestamp that is no timestamp, one of an unknown type, and
\* records that lack id, timestamp, event_type or entity_id.
Records ==
    {Event("evt-1", "created", T1, [status |-> Str("active")]),
     Without(Event("evt-5", "created", T2, EmptyDict), "payload"),
     Event("evt-2", "updated", T1, [status |-> Str("expanding")]),
     Event("evt-6", "updated", "soon", [status |-> Str("stable")]),
     Event("evt-4", "archived", T2, EmptyDict),
     Without(Event("evt-7", "deleted", T2, EmptyDict), "id"),
     Without(Event("evt-7", "deleted", T2, EmptyDict), "timestamp"),
     Without(Event("evt-7", "deleted", T2, EmptyDict), "event_type"),
     Without(Event("evt-7", "deleted", T2, EmptyDict), "entity_id")}

ValidateEvent(i) ==
    /\ out = Idle
    /\ out' = [op |-> "validate_event", index |-> i,
               result |-> Return(validate_event(events[i]))]
    /\ UNCHANGED <<snapshot, last, kept, events, heap>>

NextValidate ==
    \/ \E record \in Records : Submit(record)
    \/ \E i \in 1..Len(events) : ValidateEvent(i)
    \/ ValidateTimeline

SpecValidate == Init /\ [][NextValidate]_vars

\* The events of the caller that folds by hand and diffs what it kept.
DiffEvents ==
    {Event("evt-1", "created", T1, [status |-> Str("active")]),
     Event("evt-5", "created", T2, [status |-> Str("active"), note |-> None]),
     Event("evt-2", "updated", T1, [status |-> Str("stable")]),
     Event("evt-6", "updated", T2, [note |-> None]),
     Event("evt-9", "deleted", T2, EmptyDict),
     Event("evt-3", "relationship_added", T1, EmploysAs("person-456", "engineer")),
     Event("evt-10", "relationship_removed", T2, Employs("person-456"))}

Keep ==
    /\ kept' = snapshot
    /\ UNCHANGED <<snapshot, last, events, out, heap>>

\* compute_diff of the kept snapshot and the held one, either way round
ComputeDiff(before, after) ==
    /\ last' = [op |-> "compute_diff", before |-> before, after |-> after,
                result |-> compute_diff(before, after)]
    /\ UNCHANGED <<snapshot, kept, events, out, heap>>

NextDiff ==
    \/ \E event \in DiffEvents : ApplyEvent(event)
    \/ Keep
    \/ ComputeDiff(kept, snapshot)
    \/ ComputeDiff(snapshot, kept)

SpecDiff == Init /\ [][NextDiff]_vars

-----------------------------------------------------------------------------
(* The company example: its log and the steps of its main *)

EVENTS ==
    <<Event("evt-001", "created", "2024-01-01T00:00:00Z",
            [name |-> Str("Acme Corp"), status |-> Str("active"),
             founded |-> Str("2024-01-01")]),
      Event("evt-002", "updated", "2024-03-15T10:30:00Z",
            [status |-> Str("expanding"), employee_count |-> Num(10)]),
      Event("evt-003", "relationship_added", "2024-03-20T14:00:00Z",
            [relationship_type |-> Str("employs"),
             target_entity |-> Str("person-456"),
             properties |-> Dict([role |-> Str("engineer"),
                                  start_date |-> Str("2024-03-20")])]),
      Event("evt-004", "updated", "2024-06-01T09:00:00Z",
            [status |-> Str("stable"), employee_count |-> Num(25)]),
      Event("evt-005", "deleted", "2024-12-31T23:59:59Z", EmptyDict)>>

timestamps ==
    <<"2024-02-01T00:00:00Z", "2024-04-01T00:00:00Z",
      "2024-07-01T00:00:00Z", "2025-01-01T00:00:00Z">>

\* The store hands the log to the core event by event, in any order and
\* each event once: the core takes an unordered collection.
HandOver(event) ==
    /\ \A i \in 1..Len(events) : events[i] # event
    /\ events' = Append(events, event)
    /\ out' = Idle
    /\ last' = Idle
    /\ UNCHANGED <<snapshot, kept, heap>>

\* step 4 of main: the diff of two consecutive snapshots; main gets there
\* only when validate_timeline reported nothing and no derivation raised
DiffSnapshots(i) ==
    /\ last = Idle
    /\ validate_timeline(events) = Return(<<>>)
    /\ Returned(derive_snapshot(events, timestamps[i]))
    /\ Returned(derive_snapshot(events, timestamps[i + 1]))
    /\ ComputeDiff(derive_snapshot(events, timestamps[i]).value,
                   derive_snapshot(events, timestamps[i + 1]).value)

NextCompany ==
    \/ \E i \in 1..Len(EVENTS) : HandOver(EVENTS[i])
    \/ ValidateTimeline
    \/ BuildTimeline
    \/ \E i \in 1..Len(timestamps) : DeriveSnapshot(timestamps[i])
    \/ \E i \in 1..(Len(timestamps) - 1) : DiffSnapshots(i)

SpecCompany == Init /\ [][NextCompany]_vars

-----------------------------------------------------------------------------
(* The reducer with the objects it reads and writes.  A dict or a list is  *)
(* an object of the heap and a value that holds one holds a reference to   *)
(* it, so that copying an object and writing to it are distinct from       *)
(* writing to the object itself.  heap[a] is Dict(entries) or List(items), *)
(* whose entries and items are str, int, bool, None or references.         *)

MaxHeap == 12

Ref(a) == [kind |-> "ref", addr |-> a]
IsRef(v) == v.kind = "ref"
At(h, v) == h[v.addr]

\* a dict or list display: a new object
Alloc(h, obj) == [heap |-> Append(h, obj), ref |-> Ref(Len(h) + 1)]

\* obj[key] = value, obj.append(item): a write to the object itself
Store(h, v, obj) == [h EXCEPT ![v.addr] = obj]

\* faulty variant: dict(v), a new dict whose values are the old objects
deepcopy_shallow(h, v) ==
    IF ~IsRef(v) THEN [heap |-> h, ref |-> v] ELSE Alloc(h, At(h, v))

\* copy.deepcopy: a new object for every dict and list under v
RECURSIVE deepcopy(_, _), copy_items(_, _, _, _), copy_entries(_, _, _, _)
deepcopy(h, v) ==
    IF ~IsRef(v) THEN [heap |-> h, ref |-> v]
    ELSE IF At(h, v).kind = "list"
    THEN LET c == copy_items(h, At(h, v).items, 1, <<>>)
         IN Alloc(c.heap, List(c.items))
    ELSE LET c == copy_entries(h, At(h, v).entries, DOMAIN At(h, v).entries, <<>>)
         IN Alloc(c.heap, Dict(c.entries))

copy_items(h, items, i, done) ==
    IF i > Len(items) THEN [heap |-> h, items |-> done]
    ELSE LET c == deepcopy(h, items[i])
         IN copy_items(c.heap, items, i + 1, Append(done, c.ref))

copy_entries(h, entries, keys, done) ==
    IF keys = {} THEN [heap |-> h, entries |-> done]
    ELSE LET k == CHOOSE key \in keys : TRUE
             c == deepcopy(h, entries[k])
         IN copy_entries(c.heap, entries, keys \ {k}, Merge(done, k :> c.ref))

\* the dict every successful branch returns
NewSnapshotAt(h, entity_id, event, state, deleted) ==
    LET made == Alloc(h, Dict([entity_id |-> Str(entity_id),
                               as_of |-> Str(event["timestamp"]),
                               state |-> state,
                               last_event_id |-> Str(event["id"]),
                               deleted |-> Bool(deleted)]))
    IN [heap |-> made.heap, result |-> Return(made.ref)]

\* the two checks at the head of every branch but created; None when the
\* branch goes on
Refused(h, s, doing, entity_id, when_deleted) ==
    IF IsNone(s)
    THEN Raise("ValueError", <<doing, entity_id, ": does not exist">>)
    ELSE IF At(h, s).entries["deleted"] = Bool(TRUE)
    THEN Raise("ValueError", <<doing, entity_id, when_deleted>>)
    ELSE None

\* apply_event on references, for events that have their five fields and
\* payloads of str and int values.  An exception leaves the heap as it
\* was: what the branch allocated before it is out of reach.
apply_event_at(h, s, event) ==
    LET event_type == event["event_type"]
        entity_id == event["entity_id"]
        payload == event["payload"]
    IN CASE event_type = "created" ->
              IF ~IsNone(s) /\ At(h, s).entries["deleted"] # Bool(TRUE)
              THEN [heap |-> h,
                    result |-> Raise("ValueError",
                                     <<"Cannot create ", entity_id, ": already exists">>)]
              ELSE LET state == Alloc(h, Dict(payload))
                   IN NewSnapshotAt(state.heap, entity_id, event, state.ref, FALSE)
         [] event_type = "updated" ->
              LET refusal == Refused(h, s, "Cannot update ", entity_id,
                                     ": has been deleted")
              IN IF refusal # None THEN [heap |-> h, result |-> refusal]
                 ELSE LET new_state == deepcopy(h, At(h, s).entries["state"])
                          written == Store(new_state.heap, new_state.ref,
                                           Dict(Merge(At(new_state.heap,
                                                         new_state.ref).entries,
                                                      payload)))
                      IN NewSnapshotAt(written, entity_id, event, new_state.ref, FALSE)
         [] event_type = "deleted" ->
              LET refusal == Refused(h, s, "Cannot delete ", entity_id,
                                     ": already deleted")
              IN IF refusal # None THEN [heap |-> h, result |-> refusal]
                 ELSE LET copied == deepcopy(h, At(h, s).entries["state"])
                          state == Alloc(copied.heap,
                                         Dict([_deleted_state |-> copied.ref]))
                      IN NewSnapshotAt(state.heap, entity_id, event, state.ref, TRUE)
         [] event_type = "relationship_added" ->
              LET refusal == Refused(h, s, "Cannot add relationship to ", entity_id,
                                     ": has been deleted")
              IN IF refusal # None THEN [heap |-> h, result |-> refusal]
                 ELSE LET new_state == deepcopy(h, At(h, s).entries["state"])
                          empty == Alloc(new_state.heap, List(<<>>))
                          h1 == IF "relationships"
                                      \notin DOMAIN At(new_state.heap, new_state.ref).entries
                                THEN Store(empty.heap, new_state.ref,
                                           Dict(Merge(At(empty.heap, new_state.ref).entries,
                                                      [relationships |-> empty.ref])))
                                ELSE new_state.heap
                          record == Alloc(h1, Dict(RelationshipRecord(payload)))
                          relationships == At(record.heap, new_state.ref).entries["relationships"]
                          appended == Store(record.heap, relationships,
                                            List(Append(At(record.heap, relationships).items,
                                                        record.ref)))
                      IN NewSnapshotAt(appended, entity_id, event, new_state.ref, FALSE)
         [] event_type = "relationship_removed" ->
              LET refusal == Refused(h, s, "Cannot remove relationship from ", entity_id,
                                     ": has been deleted")
              IN IF refusal # None THEN [heap |-> h, result |-> refusal]
                 ELSE LET new_state == deepcopy(h, At(h, s).entries["state"])
                          h1 == new_state.heap
                          entries == At(h1, new_state.ref).entries
                          relationships == IF "relationships" \in DOMAIN entries
                                           THEN At(h1, entries["relationships"]).items
                                           ELSE <<>>
                          target == Get(payload, "target_entity", None)
                          rel_type == Get(payload, "relationship_type", None)
                          new_relationships ==
                              SelectSeq(relationships,
                                  LAMBDA r : ~(/\ Get(At(h1, r).entries, "target", None) = target
                                               /\ Get(At(h1, r).entries, "type", None) = rel_type))
                      IN IF Len(new_relationships) = Len(relationships)
                         THEN [heap |-> h,
                               result |-> Raise("ValueError",
                                                <<"Relationship not found: ", Format(rel_type),
                                                  " -> ", Format(target)>>)]
                         ELSE LET filtered == Alloc(h1, List(new_relationships))
                                  written == Store(filtered.heap, new_state.ref,
                                                   Dict(Merge(entries,
                                                              [relationships |-> filtered.ref])))
                              IN NewSnapshotAt(written, entity_id, event, new_state.ref, FALSE)
         [] OTHER ->
              [heap |-> h,
               result |-> Raise("ValueError", <<"Unknown event type: ", event_type>>)]


\* A caller that holds references: it hands the snapshot it holds to
\* apply_event, keeps what comes back, and goes on to write to the state
\* of the snapshot it got.
ApplyEventAt(event) ==
    /\ Len(heap) < MaxHeap
    /\ LET r == apply_event_at(heap, snapshot, event)
       IN /\ heap' = r.heap
          /\ last' = [op |-> "apply_event", snapshot |-> snapshot, event |-> event,
                      result |-> r.result, heap |-> heap]
          /\ snapshot' = IF Returned(r.result) THEN r.result.value ELSE snapshot
    /\ UNCHANGED <<kept, events, out>>

\* the snapshot the last call returned, when it returned one
Got == last.op = "apply_event" /\ Returned(last.result) /\ snapshot = last.result.value

\* returned["state"]["status"] = "tampered"
SetField ==
    /\ Got
    /\ LET state == At(heap, snapshot).entries["state"]
       IN heap' = Store(heap, state,
                        Dict(Merge(At(heap, state).entries, [status |-> Str("tampered")])))
    /\ UNCHANGED <<snapshot, last, kept, events, out>>

\* returned["state"]["relationships"].append({...})
AppendRelationship ==
    /\ Got
    /\ Len(heap) < MaxHeap
    /\ LET entries == At(heap, At(heap, snapshot).entries["state"]).entries
       IN /\ "relationships" \in DOMAIN entries
          /\ LET record == Alloc(heap, Dict([type |-> Str("audits"),
                                             target |-> Str("person-000")]))
             IN heap' = Store(record.heap, entries["relationships"],
                              List(Append(At(heap, entries["relationships"]).items,
                                          record.ref)))
    /\ UNCHANGED <<snapshot, last, kept, events, out>>

\* returned["state"]["relationships"][0]["role"] = "tampered"
EditRecord ==
    /\ Got
    /\ LET entries == At(heap, At(heap, snapshot).entries["state"]).entries
       IN /\ "relationships" \in DOMAIN entries
          /\ At(heap, entries["relationships"]).items # <<>>
          /\ LET record == At(heap, entries["relationships"]).items[1]
             IN heap' = Store(heap, record,
                              Dict(Merge(At(heap, record).entries,
                                         [role |-> Str("tampered")])))
    /\ UNCHANGED <<snapshot, last, kept, events, out>>

NextRefs ==
    \/ \E event \in LogEvents : ApplyEventAt(event)
    \/ SetField
    \/ AppendRelationship
    \/ EditRecord

SpecRefs == Init /\ [][NextRefs]_vars

-----------------------------------------------------------------------------
(* Failure taxonomy: the kind of a raised error, read off the message the  *)
(* code raises it with.                                                    *)

FailureKind(r) ==
    CASE r.exc # "ValueError" -> r.exc
      [] r.msg[1] = "Unknown event type: " -> "UnknownEventType"
      [] r.msg[1] = "Relationship not found: " -> "RelationshipNotFound"
      [] r.msg[3] = ": does not exist" -> "EntityNotFound"
      [] r.msg[3] = ": already exists" -> "EntityAlreadyExists"
      [] r.msg[3] \in {": has been deleted", ": already deleted"} -> "EntityDeleted"
      [] OTHER -> "?"

Fails(r, kind) == Raised(r) /\ FailureKind(r) = kind

Mutating ==
    {"updated", "deleted", "relationship_added", "relationship_removed"}

Applied == last.op = "apply_event"

-----------------------------------------------------------------------------
(* C1: apply_event enforces the lifecycle preconditions with distinct      *)
(* failure kinds.  For every call apply_event(snapshot, event) with an     *)
(* event that has its five fields: updated on an absent snapshot raises    *)
(* EntityNotFound; created on a snapshot that exists with deleted = false  *)
(* raises EntityAlreadyExists; updated, deleted, relationship_added and    *)
(* relationship_removed on a snapshot with deleted = true raise            *)
(* EntityDeleted; a raising call returns no snapshot.                      *)

C1_LifecyclePreconditions ==
    (Applied /\ WellFormed(last.event)) =>
        LET s == last.snapshot
            type == last.event["event_type"]
            r == last.result
        IN /\ (type = "updated" /\ IsNone(s)) => Fails(r, "EntityNotFound")
           /\ (type = "created" /\ ~IsNone(s) /\ ~s.deleted)
                 => Fails(r, "EntityAlreadyExists")
           /\ (type \in Mutating /\ ~IsNone(s) /\ s.deleted)
                 => Fails(r, "EntityDeleted")
           /\ Raised(r) => ("value" \notin DOMAIN r /\ snapshot = s)

\* relationship_removed was applied to a deleted snapshot and raised
C1_Witness ==
    /\ Applied /\ WellFormed(last.event)
    /\ last.event["event_type"] = "relationship_removed"
    /\ ~IsNone(last.snapshot) /\ last.snapshot.deleted
    /\ Fails(last.result, "EntityDeleted")

-----------------------------------------------------------------------------
(* Folds, as the specification states them: the left fold of apply_event   *)
(* over a sequence stops at the first failure (Fold); a replay skips the   *)
(* failing events (Replay).                                                *)

\* the events of a timeline with timestamp <= as_of, in timeline order
UpTo(timeline, as_of) ==
    SelectSeq(timeline, LAMBDA e : ~StrLt(as_of, e["timestamp"]))

RECURSIVE Fold(_, _)
Fold(seq, k) ==
    IF k = 0 THEN Return(None)
    ELSE LET p == Fold(seq, k - 1)
         IN IF Raised(p) THEN p ELSE apply_event(p.value, seq[k])

RECURSIVE Replay(_, _)
Replay(seq, k) ==
    IF k = 0 THEN None
    ELSE LET p == Replay(seq, k - 1)
             r == apply_event(p, seq[k])
         IN IF Returned(r) THEN r.value ELSE p

Derived == out.op = "derive_snapshot"
Validated == out.op = "validate_timeline"
Built == out.op = "build_timeline"

\* the timeline of the log (the log's events have their sort keys)
Timeline == build_timeline(events).value

\* the running snapshot of validate_timeline's loop after k events
Running(k) == validate_loop(SubSeq(Timeline, 1, k), 1, None, <<>>).value.snapshot

\* what derive_snapshot's loop holds after the first k events up to as_of
Folded(as_of, k) == derive_loop(SubSeq(UpTo(Timeline, as_of), 1, k), 1, None, as_of)

Tombstone(s) == ~IsNone(s) /\ s.deleted

\* the snapshot a created event starts a lifecycle with
Fresh(e) ==
    [entity_id |-> e["entity_id"], as_of |-> e["timestamp"],
     state |-> e["payload"], last_event_id |-> e["id"], deleted |-> FALSE]

-----------------------------------------------------------------------------
(* C2: in the validator's replay and in the derivation fold, once the      *)
(* running snapshot has deleted = true, an event that is not created       *)
(* fails and leaves the running snapshot exactly as it was (the            *)
(* derivation fails there), and a created event succeeds with a snapshot   *)
(* that has deleted = false and the event's payload as its whole state.    *)

C2_DeletedIsFinalUntilCreated ==
    /\ Validated =>
         \A k \in 1..Len(Timeline) :
            LET s == Running(k - 1)
                e == Timeline[k]
            IN Tombstone(s) =>
                 IF e["event_type"] = "created"
                 THEN Running(k) = Fresh(e)
                 ELSE Raised(apply_event(s, e)) /\ Running(k) = s
    /\ Derived =>
         \A k \in 1..Len(UpTo(Timeline, out.as_of)) :
            LET p == Folded(out.as_of, k - 1)
                e == UpTo(Timeline, out.as_of)[k]
            IN (Returned(p) /\ Tombstone(p.value)) =>
                 IF e["event_type"] = "created"
                 THEN Folded(out.as_of, k) = Return(Fresh(e))
                 ELSE Raised(Folded(out.as_of, k)) /\ Raised(out.result)

\* the validator replayed created, deleted, created: the third event met a
\* tombstone and started a lifecycle that has none of the first one's fields
C2_Witness ==
    /\ Validated
    /\ \E k \in 1..Len(Timeline) :
          /\ Tombstone(Running(k - 1))
          /\ Timeline[k]["event_type"] = "created"
          /\ DOMAIN Running(k - 1).state["_deleted_state"].entries # {}
          /\ DOMAIN Running(k).state = DOMAIN Timeline[k]["payload"]

-----------------------------------------------------------------------------
(* C3: when no applied event fails, derive_snapshot(E, asOf) is the left   *)
(* fold of apply_event from absent over the events of build_timeline(E)    *)
(* with timestamp <= asOf (equality included), in timeline order; a        *)
(* snapshot comes back with as_of = asOf and last_event_id the id of the   *)
(* last applied event; with no event to apply the result is absent.        *)

C3_DeriveIsPrefixFold ==
    Derived =>
        LET applied == UpTo(Timeline, out.as_of)
            f == Fold(applied, Len(applied))
        IN Returned(f) =>
             /\ Returned(out.result)
             /\ IsNone(f.value) => IsNone(out.result.value)
             /\ ~IsNone(f.value) =>
                  /\ out.result.value = [f.value EXCEPT !.as_of = out.as_of]
                  /\ out.result.value.as_of = out.as_of
                  /\ out.result.value.last_event_id = applied[Len(applied)]["id"]

\* a derivation between two events: the earlier is applied, the later is
\* not, and as_of is the cutoff, not the applied event's timestamp
C3_Witness ==
    /\ Derived /\ Returned(out.result) /\ ~IsNone(out.result.value)
    /\ out.as_of = T1a
    /\ out.result.value.as_of = T1a
    /\ Len(UpTo(Timeline, T1a)) = 2
    /\ Len(Timeline) = 3

-----------------------------------------------------------------------------
(* C4: derive_snapshot(E, asOf) fails exactly when some event with         *)
(* timestamp <= asOf fails against the snapshot folded from the events     *)
(* before it; it then fails with the reducer's failure and returns no      *)
(* snapshot.  Events after asOf play no part.                              *)

FailsAt(applied, k) ==
    /\ Returned(Fold(applied, k - 1))
    /\ Raised(apply_event(Fold(applied, k - 1).value, applied[k]))

C4_DeriveFailsAsReducer ==
    Derived =>
        LET applied == UpTo(Timeline, out.as_of)
        IN /\ Raised(out.result) <=> \E k \in 1..Len(applied) : FailsAt(applied, k)
           /\ \A k \in 1..Len(applied) :
                 FailsAt(applied, k) =>
                    out.result = apply_event(Fold(applied, k - 1).value, applied[k])
           /\ Raised(out.result) => "value" \notin DOMAIN out.result

\* a derivation that succeeds although a later event of the log would fail,
\* and one that fails: here the failing one, on its second event
C4_Witness ==
    /\ Derived /\ Raised(out.result)
    /\ FailsAt(UpTo(Timeline, out.as_of), 2)
    /\ Len(UpTo(Timeline, out.as_of)) < Len(Timeline)

\* the first case of the note above
C4_WitnessLater ==
    /\ Derived /\ Returned(out.result)
    /\ Raised(Fold(Timeline, Len(Timeline)))

-----------------------------------------------------------------------------
(* C5: validate_timeline replays the timeline from absent; an event that   *)
(* fails against the snapshot left by the successful events before it      *)
(* adds one entry tagged with its id, and the replay goes on from that     *)
(* snapshot.  The entries are those of the failing events, in timeline     *)
(* order.                                                                  *)

RECURSIVE Entries(_, _)
Entries(seq, k) ==
    IF k = 0 THEN <<>>
    ELSE LET r == apply_event(Replay(seq, k - 1), seq[k])
         IN IF Raised(r)
            THEN Append(Entries(seq, k - 1), <<"Event ", seq[k]["id"], ": ">> \o r.msg)
            ELSE Entries(seq, k - 1)

C5_ValidateCollectsAndContinues ==
    Validated =>
        /\ Returned(out.result)
        /\ out.result.value = Entries(Timeline, Len(Timeline))
        /\ \A k \in 0..Len(Timeline) : Running(k) = Replay(Timeline, k)

\* the first event fails, and the two after it are applied all the same
C5_Witness ==
    /\ Validated /\ Returned(out.result)
    /\ Len(Timeline) = 3
    /\ Len(out.result.value) = 1
    /\ out.result.value[1][2] = Timeline[1]["id"]
    /\ ~IsNone(Running(3))
    /\ Running(3).last_event_id = Timeline[3]["id"]

-----------------------------------------------------------------------------
(* C8: build_timeline returns a permutation of its input in which every    *)
(* adjacent pair is non-decreasing in (timestamp, id), both compared as    *)
(* strings; events with the same timestamp are in ascending id order;      *)
(* when the ids are unique the keys increase strictly and every            *)
(* reordering of the input gives the same timeline.                        *)

Occurrences(seq, e) == Cardinality({i \in 1..Len(seq) : seq[i] = e})

IsPermutationOf(a, b) ==
    /\ Len(a) = Len(b)
    /\ \A i \in 1..Len(b) : Occurrences(a, b[i]) = Occurrences(b, b[i])

\* e comes no later than f in the order by timestamp, then id
KeyLeq(e, f) ==
    \/ StrLt(e["timestamp"], f["timestamp"])
    \/ /\ e["timestamp"] = f["timestamp"]
       /\ (StrLt(e["id"], f["id"]) \/ e["id"] = f["id"])

UniqueIds(seq) == \A i, j \in 1..Len(seq) : seq[i]["id"] = seq[j]["id"] => i = j

\* the reorderings of a sequence
Reorderings(seq) ==
    {[i \in 1..Len(seq) |-> seq[p[i]]] :
        p \in {q \in [1..Len(seq) -> 1..Len(seq)] :
                  \A i, j \in 1..Len(seq) : q[i] = q[j] => i = j}}

C8_TimelineIsSortedPermutation ==
    Built =>
        /\ Returned(out.result)
        /\ LET tl == out.result.value
           IN /\ IsPermutationOf(tl, events)
              /\ \A i \in 1..(Len(tl) - 1) :
                    /\ KeyLeq(tl[i], tl[i + 1])
                    /\ tl[i]["timestamp"] = tl[i + 1]["timestamp"]
                          => ~StrLt(tl[i + 1]["id"], tl[i]["id"])
              /\ UniqueIds(events) =>
                    /\ \A i \in 1..(Len(tl) - 1) :
                          KeyLeq(tl[i], tl[i + 1]) /\ ~KeyLeq(tl[i + 1], tl[i])
                    /\ \A r \in Reorderings(events) : build_timeline(r) = Return(tl)

\* three events with one timestamp were handed over in descending id
\* order, evt-10 among them, which sorts before evt-5 as a string
C8_Witness ==
    /\ Built /\ Returned(out.result)
    /\ Len(events) = 3
    /\ UniqueIds(events)
    /\ \A i \in 1..3 : events[i]["timestamp"] = T2
    /\ StrLt(events[3]["id"], events[2]["id"])
    /\ StrLt(events[2]["id"], events[1]["id"])
    /\ events[3]["id"] = "evt-10"
    /\ out.result.value = <<events[3], events[2], events[1]>>

-----------------------------------------------------------------------------
(* C6: the report of validate_timeline drops no class of error: when an    *)
(* event of the log has a schema error (a missing id, entity_id,           *)
(* event_type, timestamp or payload, an invalid event_type, a timestamp    *)
(* that is no timestamp), the report is not empty, so such a log is not    *)
(* reported valid.                                                         *)

HasSchemaError(evs) == \E i \in 1..Len(evs) : validate_event(evs[i]) # <<>>

C6_ReportKeepsSchemaErrors ==
    (Validated /\ Returned(out.result) /\ HasSchemaError(events))
        => out.result.value # <<>>

-----------------------------------------------------------------------------
(* C7: validate_timeline never raises: for every list of records, also     *)
(* records without id, timestamp, event_type or entity_id, the call ends   *)
(* by returning a list of errors.                                          *)

C7_ValidateNeverRaises == Validated => Returned(out.result)

-----------------------------------------------------------------------------
(* C9: compute_diff(S, S) has changes = [] for every snapshot S reached by *)
(* folding events (live, deleted, with and without relationships) and for  *)
(* S absent.                                                               *)

Diffed == last.op = "compute_diff"

C9_DiffOfSameIsEmpty ==
    (Diffed /\ last.before = last.after) => last.result.changes = <<>>

\* a live snapshot with a relationship and a null field, diffed with itself
C9_Witness ==
    /\ Diffed /\ last.before = last.after
    /\ ~IsNone(last.before) /\ ~last.before.deleted
    /\ RelationshipCount(last.before) > 0
    /\ Get(last.before.state, "note", Str("")) = None
    /\ last.result.changes = <<>>

-----------------------------------------------------------------------------
(* C10: compute_diff emits a change record for exactly the fields of the   *)
(* two states whose values are not equal, a field that one state lacks     *)
(* being unequal to any value the other holds for it, null included.       *)

StateOf(s) == IF IsNone(s) THEN EmptyDict ELSE s.state

\* the field is in one state only, or in both with values that differ
Differs(before_state, after_state, key) ==
    \/ (key \in DOMAIN before_state) # (key \in DOMAIN after_state)
    \/ /\ key \in DOMAIN before_state
       /\ key \in DOMAIN after_state
       /\ before_state[key] # after_state[key]

Reported(changes, key) == \E i \in 1..Len(changes) : changes[i].field = key

C10_DiffReportsEveryUnequalField ==
    Diffed =>
        \A key \in (DOMAIN StateOf(last.before)) \cup (DOMAIN StateOf(last.after)) :
            Differs(StateOf(last.before), StateOf(last.after), key)
                <=> Reported(last.result.changes, key)

-----------------------------------------------------------------------------
(* C11: in compute_diff(before, after) the record of the deleted flag is   *)
(* there exactly when the two flags differ (an absent snapshot counting    *)
(* as not deleted) and is then the first record; the records after it are  *)
(* records of state fields, in strictly ascending order of field name, so  *)
(* at most one per field.                                                  *)

FlagOf(s) == IF IsNone(s) THEN FALSE ELSE s.deleted

C11_DeletedFirstThenSorted ==
    Diffed =>
        LET changes == last.result.changes
            flagged == FlagOf(last.before) # FlagOf(last.after)
            rest == IF flagged /\ changes # <<>> THEN Tail(changes) ELSE changes
            fields == (DOMAIN StateOf(last.before)) \cup (DOMAIN StateOf(last.after))
        IN /\ flagged =>
                /\ changes # <<>>
                /\ changes[1] = [field |-> "deleted",
                                 before |-> Bool(FlagOf(last.before)),
                                 after |-> Bool(FlagOf(last.after))]
           /\ \A i \in 1..Len(rest) : rest[i].field \in fields
           /\ \A i \in 1..(Len(rest) - 1) : StrLt(rest[i].field, rest[i + 1].field)

\* a live snapshot against its tombstone: the flag first, then the marker
\* field, which starts with an underscore, then the fields that went
C11_Witness ==
    /\ Diffed
    /\ FlagOf(last.before) # FlagOf(last.after)
    /\ Len(last.result.changes) >= 4
    /\ last.result.changes[1].field = "deleted"
    /\ last.result.changes[2].field = "_deleted_state"

-----------------------------------------------------------------------------
(* C12: for every live snapshot S and every pair (T, X), adding the        *)
(* relationship (T, X) to S and then removing (T, X) succeeds and leaves   *)
(* `relationships` as it was in S before the add: missing where S had no   *)
(* such field, and with the earlier records (T, X) of S still there.       *)

Missing == [kind |-> "missing"]

Live(s) == ~IsNone(s) /\ ~s.deleted

\* the relationship events of the universe, an add with the remove of the
\* same type and target
AddRemovePairs ==
    {p \in ReducerEvents \X ReducerEvents :
        /\ WellFormed(p[1]) /\ WellFormed(p[2])
        /\ p[1].event_type = "relationship_added"
        /\ p[2].event_type = "relationship_removed"
        /\ p[1].payload.relationship_type = p[2].payload.relationship_type
        /\ p[1].payload.target_entity = p[2].payload.target_entity}

C12_AddThenRemoveRestores ==
    Live(snapshot) =>
        \A p \in AddRemovePairs :
            LET added == apply_event(snapshot, p[1])
                removed == apply_event(added.value, p[2])
            IN /\ Returned(added)
               /\ Returned(removed)
               /\ Get(removed.value.state, "relationships", Missing)
                      = Get(snapshot.state, "relationships", Missing)

-----------------------------------------------------------------------------
(* C13: for t1 < t2, if derive_snapshot(E, t1) fails then                  *)
(* derive_snapshot(E, t2) fails in the same way; otherwise                 *)
(* derive_snapshot(E, t2) is what the fold gives when it goes on from the  *)
(* snapshot of derive_snapshot(E, t1) over the timeline's events with      *)
(* t1 < timestamp <= t2, with as_of set to t2, and it fails with the       *)
(* failure of that continuation when the continuation fails.               *)

Between(timeline, t1, t2) ==
    SelectSeq(timeline, LAMBDA e : StrLt(t1, e["timestamp"])
                                   /\ ~StrLt(t2, e["timestamp"]))

RECURSIVE FoldFrom(_, _, _)
FoldFrom(start, seq, k) ==
    IF k = 0 THEN Return(start)
    ELSE LET p == FoldFrom(start, seq, k - 1)
         IN IF Raised(p) THEN p ELSE apply_event(p.value, seq[k])

Stamped(r, as_of) ==
    IF Returned(r) /\ ~IsNone(r.value)
    THEN Return([r.value EXCEPT !.as_of = as_of])
    ELSE r

C13_DeriveContinuesFromEarlier ==
    Derived =>
        \A t1 \in AsOfs :
            StrLt(t1, out.as_of) =>
                LET earlier == derive_snapshot(events, t1)
                    rest == Between(Timeline, t1, out.as_of)
                IN IF Raised(earlier) THEN out.result = earlier
                   ELSE out.result =
                            Stamped(FoldFrom(earlier.value, rest, Len(rest)), out.as_of)

\* a derivation at T2 of a log that has a snapshot at T1 already and an
\* event after T1 to go on with
C13_Witness ==
    /\ Derived /\ out.as_of = T2 /\ Returned(out.result)
    /\ Returned(derive_snapshot(events, T1))
    /\ ~IsNone(derive_snapshot(events, T1).value)
    /\ Len(Between(Timeline, T1, T2)) >= 1
    /\ out.result.value.last_event_id # derive_snapshot(events, T1).value.last_event_id

\* the same with a derivation that fails at T1 already
C13_WitnessFails ==
    /\ Derived /\ out.as_of = T2 /\ Raised(out.result)
    /\ Raised(derive_snapshot(events, T1))

-----------------------------------------------------------------------------
(* C14: derive_snapshot(E, asOf) depends on the set of events and on asOf  *)
(* only: for a log with unique ids, the call on any reordering of the log  *)
(* gives the same outcome (snapshot, absence or failure) as the call on    *)
(* the log, and so does a second call on the log.                          *)

C14_DeriveIgnoresInputOrder ==
    (Derived /\ UniqueIds(events)) =>
        /\ derive_snapshot(events, out.as_of) = out.result
        /\ \A r \in Reorderings(events) : derive_snapshot(r, out.as_of) = out.result

\* a log handed over in an order in which folding it as given would fail,
\* derived with success
C14_Witness ==
    /\ Derived /\ UniqueIds(events) /\ Len(events) = 3
    /\ out.as_of = T2
    /\ Returned(out.result) /\ ~IsNone(out.result.value)
    /\ events # Timeline
    /\ Raised(Fold(events, 3))

-----------------------------------------------------------------------------
(* C15: on the company's log of five events validate_timeline returns no   *)
(* errors; the snapshot at 2024-02-01 has status "active" and no           *)
(* employee_count; the one at 2024-07-01 has status "stable",              *)
(* employee_count 25 and exactly one relationship record; the one at       *)
(* 2025-01-01 has deleted = true; and compute_diff of the snapshots at     *)
(* 2024-02-01 and 2024-04-01 reports status, employee_count and            *)
(* relationships.                                                          *)

WholeLog == Len(events) = Len(EVENTS)

ChangedFields(changes) == {changes[i].field : i \in 1..Len(changes)}

C15_CompanyScenario ==
    WholeLog =>
        /\ Validated => out.result = Return(<<>>)
        /\ (Derived /\ out.as_of = timestamps[1]) =>
              /\ Returned(out.result) /\ ~IsNone(out.result.value)
              /\ Get(out.result.value.state, "status", Missing) = Str("active")
              /\ "employee_count" \notin DOMAIN out.result.value.state
        /\ (Derived /\ out.as_of = timestamps[3]) =>
              /\ Returned(out.result) /\ ~IsNone(out.result.value)
              /\ Get(out.result.value.state, "status", Missing) = Str("stable")
              /\ Get(out.result.value.state, "employee_count", Missing) = Num(25)
              /\ "relationships" \in DOMAIN out.result.value.state
              /\ Len(out.result.value.state["relationships"].items) = 1
        /\ (Derived /\ out.as_of = timestamps[4]) =>
              /\ Returned(out.result) /\ ~IsNone(out.result.value)
              /\ out.result.value.deleted = TRUE
        /\ (Diffed /\ last.result.before.as_of = Str(timestamps[1])
                   /\ last.result.after.as_of = Str(timestamps[2])) =>
              {"status", "employee_count", "relationships"}
                  \subseteq ChangedFields(last.result.changes)

\* main's first diff, on the log in the order the example lists it in
C15_Witness ==
    /\ events = EVENTS
    /\ Diffed
    /\ last.result.before.as_of = Str(timestamps[1])
    /\ last.result.after.as_of = Str(timestamps[2])
    /\ Len(last.result.changes) = 3

-----------------------------------------------------------------------------
(* C16: the running snapshot of a fold is absent until a created event     *)
(* has been applied with success.  So a derivation that does not fail      *)
(* returns no snapshot exactly when the log has no event with              *)
(* timestamp <= asOf, and when it returns a snapshot the first event       *)
(* applied was a created one.                                              *)

NoCreated(seq, k) == \A j \in 1..k : seq[j]["event_type"] # "created"

C16_AbsentUntilCreated ==
    /\ Derived =>
          LET applied == UpTo(Timeline, out.as_of)
          IN /\ \A k \in 0..Len(applied) :
                   Returned(Folded(out.as_of, k)) =>
                      (IsNone(Folded(out.as_of, k).value) <=> NoCreated(applied, k))
             /\ Returned(out.result) =>
                   /\ IsNone(out.result.value) <=> applied = <<>>
                   /\ ~IsNone(out.result.value) => applied[1]["event_type"] = "created"
    /\ Validated =>
          \A k \in 0..Len(Timeline) :
              IsNone(Running(k)) <=> NoCreated(Timeline, k)

\* a snapshot derived from three applied events, the first a created one
C16_Witness ==
    /\ Derived /\ out.as_of = T2
    /\ Returned(out.result) /\ ~IsNone(out.result.value)
    /\ Len(UpTo(Timeline, T2)) = 3
    /\ Timeline[1]["event_type"] = "created"
    /\ events[1]["event_type"] # "created"

\* no snapshot from a log whose events all come after asOf
C16_WitnessAbsent ==
    /\ Derived /\ out.as_of = T1a
    /\ Len(events) = 2
    /\ Returned(out.result) /\ IsNone(out.result.value)

-----------------------------------------------------------------------------
(* C17: apply_event neither writes to its input snapshot nor returns       *)
(* anything that shares an object with it.  After the call, whether it     *)
(* returned or raised, and after any later write of the caller to the      *)
(* returned snapshot's state (a field set, a record appended to            *)
(* `relationships`, a record edited), the input snapshot with its state,   *)
(* its `relationships` list and the records in it reads as it did before   *)
(* the call.                                                               *)

\* what a value reads as, all the way down
RECURSIVE View(_, _)
View(h, v) ==
    IF ~IsRef(v) THEN v
    ELSE IF At(h, v).kind = "list"
    THEN List([i \in 1..Len(At(h, v).items) |-> View(h, At(h, v).items[i])])
    ELSE Dict([k \in DOMAIN At(h, v).entries |-> View(h, At(h, v).entries[k])])

\* the addresses of the objects under a value
RECURSIVE Reach(_, _)
Reach(h, v) ==
    IF ~IsRef(v) THEN {}
    ELSE LET inner == IF At(h, v).kind = "list"
                      THEN {At(h, v).items[i] : i \in 1..Len(At(h, v).items)}
                      ELSE {At(h, v).entries[k] : k \in DOMAIN At(h, v).entries}
         IN {v.addr} \cup UNION {Reach(h, w) : w \in inner}

C17_InputNeitherWrittenNorShared ==
    Applied =>
        /\ View(heap, last.snapshot) = View(last.heap, last.snapshot)
        /\ Returned(last.result) =>
              Reach(heap, last.result.value) \cap Reach(last.heap, last.snapshot) = {}

\* a record was added to a snapshot that had one, and the caller then
\* appended to the list it got back: three records there, one in the input
C17_Witness ==
    /\ Got
    /\ last.event["event_type"] = "relationship_added"
    /\ ~IsNone(last.snapshot)
    /\ LET before == View(heap, last.snapshot).entries["state"].entries
           after == View(heap, snapshot).entries["state"].entries
       IN /\ "relationships" \in DOMAIN before
          /\ Len(before["relationships"].items) = 1
          /\ Len(after["relationships"].items) = 3
          /\ Get(after, "status", Missing) = Str("tampered")

\* the dict at an address as the function of its keys, and a snapshot
\* reference as the snapshot record of the reducer on values
RECURSIVE EntriesAt(_, _), ValueAt(_, _)
EntriesAt(h, v) == [k \in DOMAIN At(h, v).entries |-> ValueAt(h, At(h, v).entries[k])]

ValueAt(h, v) ==
    IF ~IsRef(v) THEN v
    ELSE IF At(h, v).kind = "list"
    THEN List([i \in 1..Len(At(h, v).items) |-> EntriesAt(h, At(h, v).items[i])])
    ELSE Dict(EntriesAt(h, v))

SnapshotAt(h, s) ==
    IF IsNone(s) THEN None
    ELSE [entity_id |-> At(h, s).entries["entity_id"].s,
          as_of |-> At(h, s).entries["as_of"].s,
          state |-> EntriesAt(h, At(h, s).entries["state"]),
          last_event_id |-> At(h, s).entries["last_event_id"].s,
          deleted |-> At(h, s).entries["deleted"].b]

\* the reducer on references computes what the reducer on values computes
RefsAgreeWithValues ==
    Applied =>
        LET r == apply_event_at(last.heap, last.snapshot, last.event)
            p == apply_event(SnapshotAt(last.heap, last.snapshot), last.event)
        IN IF Raised(p) THEN r.result = p
           ELSE Returned(r.result) /\ SnapshotAt(r.heap, r.result.value) = p.value

-----------------------------------------------------------------------------
(* C18: relationship_removed on a live snapshot takes out of               *)
(* `relationships` every record whose type and target are the payload's    *)
(* relationship_type and target_entity, duplicates included, keeps the     *)
(* other records in their order and the other state fields as they are;    *)
(* when no record matches (also when there is no `relationships` field or  *)
(* an empty one) it fails with RelationshipNotFound and returns no         *)
(* snapshot.                                                               *)

Matches(r, payload) ==
    /\ Get(r, "type", None) = Get(payload, "relationship_type", None)
    /\ Get(r, "target", None) = Get(payload, "target_entity", None)

Removing ==
    /\ Applied
    /\ WellFormed(last.event)
    /\ last.event["event_type"] = "relationship_removed"
    /\ Live(last.snapshot)

C18_RemoveTakesEveryMatch ==
    Removing =>
        LET state == last.snapshot.state
            payload == last.event["payload"]
            before == Get(state, "relationships", List(<<>>)).items
            others == SelectSeq(before, LAMBDA r : ~Matches(r, payload))
        IN IF \E i \in 1..Len(before) : Matches(before[i], payload)
           THEN /\ Returned(last.result)
                /\ LET after == last.result.value.state
                   IN /\ DOMAIN after = DOMAIN state
                      /\ after["relationships"] = List(others)
                      /\ \A k \in (DOMAIN state) \ {"relationships"} : after[k] = state[k]
           ELSE /\ Fails(last.result, "RelationshipNotFound")
                /\ "value" \notin DOMAIN last.result
                /\ snapshot = last.snapshot

\* two records of one pair with another record between them: both go, the
\* one between stays, and so does the status
C18_Witness ==
    /\ Removing /\ Returned(last.result)
    /\ LET before == last.snapshot.state["relationships"].items
           payload == last.event["payload"]
       IN /\ Len(before) = 3
          /\ Matches(before[1], payload) /\ ~Matches(before[2], payload)
          /\ Matches(before[3], payload)
          /\ last.result.value.state["relationships"] = List(<<before[2]>>)
          /\ "status" \in DOMAIN last.result.value.state

\* the failure on a state that has no `relationships` field
C18_WitnessNoField ==
    /\ Removing /\ Fails(last.result, "RelationshipNotFound")
    /\ "relationships" \notin DOMAIN last.snapshot.state

-----------------------------------------------------------------------------
(* C19: for a log whose events have their five fields,                     *)
(* validate_timeline(E) is empty exactly when derive_snapshot(E, t) fails  *)
(* for no t; when it is not empty, its first entry names an event of the   *)
(* timeline, and derive_snapshot(E, t) fails for every t at or after that  *)
(* event's timestamp, with the failure the entry reports.                  *)

C19_ValidateAgreesWithDerive ==
    Validated =>
        /\ Returned(out.result)
        /\ LET errors == out.result.value
           IN /\ errors = <<>> <=>
                    \A t \in AsOfs : Returned(derive_snapshot(events, t))
              /\ errors # <<>> =>
                    \E k \in 1..Len(Timeline) :
                        /\ errors[1][2] = Timeline[k]["id"]
                        /\ \A t \in AsOfs :
                              ~StrLt(t, Timeline[k]["timestamp"]) =>
                                  LET d == derive_snapshot(events, t)
                                  IN /\ Raised(d)
                                     /\ d.exc = "ValueError"
                                     /\ errors[1] = <<"Event ", Timeline[k]["id"], ": ">>
                                                        \o d.msg

\* a log handed over out of order whose second timeline event fails at T2:
\* the derivation at T1 returns, the one at T2 fails as the report says
C19_Witness ==
    /\ Validated /\ Returned(out.result)
    /\ Len(out.result.value) >= 1
    /\ Len(events) = 3 /\ events # Timeline
    /\ Returned(derive_snapshot(events, T1))
    /\ Raised(derive_snapshot(events, T2))
    /\ out.result.value[1][2] = Timeline[2]["id"]

-----------------------------------------------------------------------------
(* C20: apply_event on an absent snapshot fails with EntityNotFound for    *)
(* every event that is not a created one: updated, deleted,                *)
(* relationship_added, relationship_removed, and an event whose            *)
(* event_type is outside the enumeration; the check of absence comes       *)
(* before every other failure.                                             *)

C20_AbsentIsEntityNotFound ==
    (/\ Applied
     /\ IsNone(last.snapshot)
     /\ WellFormed(last.event)
     /\ last.event["event_type"] # "created")
        => Fails(last.result, "EntityNotFound")

\* what holds: the four mutating types fail with EntityNotFound on an
\* absent snapshot
C20_MutatingOnAbsent ==
    (/\ Applied
     /\ IsNone(last.snapshot)
     /\ WellFormed(last.event)
     /\ last.event["event_type"] \in Mutating)
        => Fails(last.result, "EntityNotFound")

=============================================================================
